---- MODULE Spec2Model ----
(***************************************************************************)
(* Customer Interaction Journey Analyzer: the batch pipeline of app.py     *)
(* (load rules, read the upload, prepare utterances, categorize, speaker   *)
(* term buckets) with the engine functions it calls.                       *)
(*                                                                         *)
(* A Python str is a sequence of one-character strings.  A cell of a table *)
(* is a tagged value [t, v]: null, str, int, float (in tenths), nan, inf.  *)
(* A table is [columns |-> sequence of names, rows |-> sequence of         *)
(* functions from column name to cell].                                    *)
(***************************************************************************)
EXTENDS Integers, Sequences, FiniteSets, TLC

VARIABLES pc, rule_file, rules_df, raw_df, config, utter, matches, journey,
          buckets, error, warnings

vars == <<pc, rule_file, rules_df, raw_df, config, utter, matches, journey,
          buckets, error, warnings>>

-----------------------------------------------------------------------------
(* Characters and Python str operations                                    *)

Digits == <<"0", "1", "2", "3", "4", "5", "6", "7", "8", "9">>

Uppers == <<"A", "B", "C", "D", "E", "F", "G", "H", "I", "J", "K", "L", "M",
            "N", "O", "P", "Q", "R", "S", "T", "U", "V", "W", "X", "Y", "Z">>

Lowers == <<"a", "b", "c", "d", "e", "f", "g", "h", "i", "j", "k", "l", "m",
            "n", "o", "p", "q", "r", "s", "t", "u", "v", "w", "x", "y", "z">>

\* "SUP2" stands for the one character U+00B2 (superscript two): a digit for
\* str.isdigit, not a decimal digit for int().
AsciiOrder == <<"\n", " ", "!", "+", ",", "-", ".">> \o Digits \o <<":">>
              \o Uppers \o <<"[", "]", "_">> \o Lowers \o <<"SUP2">>

Range(f) == {f[i] : i \in DOMAIN f}

IndexOf(seq, c) == CHOOSE i \in DOMAIN seq : seq[i] = c

IsAsciiDigit(c) == c \in Range(Digits)

IsUnicodeDigit(c) == c \in Range(Digits) \cup {"SUP2"}

IsUpper(c) == c \in Range(Uppers)

IsLower(c) == c \in Range(Lowers)

IsLetter(c) == IsUpper(c) \/ IsLower(c)

IsSpace(c) == c \in {" ", "\n"}

DigitVal(c) == IndexOf(Digits, c) - 1

CharCode(c) == IndexOf(AsciiOrder, c)

UpperChar(c) == IF IsLower(c) THEN Uppers[IndexOf(Lowers, c)] ELSE c

LowerChar(c) == IF IsUpper(c) THEN Lowers[IndexOf(Uppers, c)] ELSE c

PyUpper(s) == [i \in DOMAIN s |-> UpperChar(s[i])]

PyLower(s) == [i \in DOMAIN s |-> LowerChar(s[i])]

RECURSIVE LStrip(_)
LStrip(s) == IF s # <<>> /\ IsSpace(Head(s)) THEN LStrip(Tail(s)) ELSE s

RECURSIVE RStrip(_)
RStrip(s) == IF s # <<>> /\ IsSpace(s[Len(s)])
             THEN RStrip(SubSeq(s, 1, Len(s) - 1)) ELSE s

PyStrip(s) == RStrip(LStrip(s))

\* str.split(sep) for a one-character separator: always at least one field.
RECURSIVE SplitOn(_, _)
SplitOn(s, sep) ==
    IF \A i \in DOMAIN s : s[i] # sep THEN <<s>>
    ELSE LET k == CHOOSE i \in DOMAIN s :
                     s[i] = sep /\ \A j \in 1..(i - 1) : s[j] # sep
         IN <<SubSeq(s, 1, k - 1)>> \o SplitOn(SubSeq(s, k + 1, Len(s)), sep)

\* str.splitlines(): no line for the empty string, none after a final newline.
SplitLines(s) ==
    IF s = <<>> THEN <<>>
    ELSE IF s[Len(s)] = "\n" THEN SplitOn(SubSeq(s, 1, Len(s) - 1), "\n")
    ELSE SplitOn(s, "\n")

RECURSIVE IntToStr(_)
IntToStr(n) == IF n < 0 THEN <<"-">> \o IntToStr(-n)
               ELSE IF n < 10 THEN <<Digits[n + 1]>>
               ELSE IntToStr(n \div 10) \o <<Digits[(n % 10) + 1]>>

RECURSIVE DigitsToInt(_)
DigitsToInt(s) == IF s = <<>> THEN 0
                  ELSE 10 * DigitsToInt(SubSeq(s, 1, Len(s) - 1))
                       + DigitVal(s[Len(s)])

\* The literals int(str) accepts: surrounding whitespace, one optional sign,
\* ASCII digits with single underscores between digits.
IntLiteralOk(s) ==
    LET b == PyStrip(s)
        d == IF b # <<>> /\ b[1] \in {"+", "-"} THEN Tail(b) ELSE b
    IN /\ d # <<>>
       /\ \A i \in DOMAIN d : IsAsciiDigit(d[i]) \/ d[i] = "_"
       /\ d[1] # "_" /\ d[Len(d)] # "_"
       /\ \A i \in 1..(Len(d) - 1) : ~(d[i] = "_" /\ d[i + 1] = "_")

PyInt(s) ==
    LET b == PyStrip(s)
        neg == b # <<>> /\ b[1] = "-"
        d == IF b # <<>> /\ b[1] \in {"+", "-"} THEN Tail(b) ELSE b
        n == DigitsToInt(SelectSeq(d, IsAsciiDigit))
    IN IF neg THEN -n ELSE n

-----------------------------------------------------------------------------
(* Cells                                                                   *)

Null == [t |-> "null", v |-> 0]

Str(s) == [t |-> "str", v |-> s]

Int64(n) == [t |-> "int", v |-> n]

Float(tenths) == [t |-> "float", v |-> tenths]

NaN == [t |-> "nan", v |-> 0]

Inf == [t |-> "inf", v |-> 1]

\* str(x) of a cell's Python value
PyStr(x) == IF x.t = "str" THEN x.v
            ELSE IF x.t = "int" THEN IntToStr(x.v)
            ELSE <<"N", "o", "n", "e">>

NoTable == [made |-> FALSE, rows |-> <<>>]

Table(rs) == [made |-> TRUE, rows |-> rs]

NoError == [type |-> "none", name |-> "", available |-> <<>>]

Raised(type, name, available) ==
    [type |-> type, name |-> name, available |-> available]

Failed(e) ==
    [ok |-> FALSE, table |-> NoTable, columns |-> <<>>, warnings |-> <<>>,
     error |-> e]

Prepared(cols, rs) ==
    [ok |-> TRUE, table |-> Table(rs), columns |-> cols, warnings |-> <<>>,
     error |-> NoError]

-----------------------------------------------------------------------------
(* Rule loading: load_rules and the guarded block of app.py               *)

RULE_PATHS == <<"rules/rules_embedded.parquet", "rules/rules_embedded.csv">>

\* The columns the overview of app.py selects from the loaded rule table.
OverviewColumns ==
    <<"rule_id", "query_name", "industry", "category", "subcategory">>

Absent == [exists |-> FALSE, columns |-> {}, rows |-> <<>>]

RuleFile(cols, rs) ==
    [exists |-> TRUE, columns |-> cols,
     rows |-> [i \in DOMAIN rs |-> [c \in cols |-> rs[i][c]]]]

\* load_rules: the first path of RULE_PATHS that exists is read, whatever its
\* columns; FileNotFoundError when none exists.  files[i] is what is at
\* RULE_PATHS[i].
load_rules(files) ==
    IF \E i \in DOMAIN RULE_PATHS : files[i].exists
    THEN LET p == CHOOSE i \in DOMAIN RULE_PATHS :
                      files[i].exists /\ \A j \in 1..(i - 1) : ~files[j].exists
         IN [ok |-> TRUE, df |-> files[p], error |-> NoError]
    ELSE [ok |-> FALSE, df |-> Absent,
          error |-> Raised("FileNotFoundError", "rules", <<>>)]

\* app.py try/except: load the rules, select the overview columns; any
\* exception is reported with st.error and the script stops.
LoadRulesGuarded(files) ==
    LET r == load_rules(files)
        lacking == {c \in Range(OverviewColumns) : c \notin r.df.columns}
    IN IF ~r.ok THEN [pc |-> "stopped", df |-> Absent, error |-> r.error]
       ELSE IF lacking # {}
       THEN [pc |-> "stopped", df |-> Absent,
             error |-> Raised("ColumnNotFoundError",
                              CHOOSE c \in lacking : TRUE,
                              <<>>)]
       ELSE [pc |-> "rules_loaded", df |-> r.df, error |-> NoError]

-----------------------------------------------------------------------------
(* explode_raw_transcript_column                                           *)

\* re.match(r"^\[(\d{2}):(\d{2}):(\d{2})\]\s*([A-Za-z ]+)\s*:\s*(.*)$", ln)
\* on a stripped line: ten characters "[dd:dd:dd]", then up to the first
\* colon a non-empty run of letters and spaces, then the text.
HasStamp(ln) ==
    /\ Len(ln) >= 10
    /\ ln[1] = "[" /\ ln[4] = ":" /\ ln[7] = ":" /\ ln[10] = "]"
    /\ \A i \in {2, 3, 5, 6, 8, 9} : IsAsciiDigit(ln[i])

LineMatches(ln) ==
    /\ HasStamp(ln)
    /\ LET rest == SubSeq(ln, 11, Len(ln))
       IN \E k \in DOMAIN rest :
            /\ rest[k] = ":"
            /\ k > 1
            /\ \A j \in 1..(k - 1) : IsLetter(rest[j]) \/ rest[j] = " "

LineFields(ln) ==
    LET rest == SubSeq(ln, 11, Len(ln))
        k == CHOOSE i \in DOMAIN rest :
                 rest[i] = ":" /\ \A j \in 1..(i - 1) : rest[j] # ":"
        h == DigitsToInt(SubSeq(ln, 2, 3))
        m == DigitsToInt(SubSeq(ln, 5, 6))
        s == DigitsToInt(SubSeq(ln, 8, 9))
    IN [timestamp |-> Int64(h * 3600 + m * 60 + s),
        speaker |-> Str(PyUpper(PyStrip(SubSeq(rest, 1, k - 1)))),
        text |-> Str(PyStrip(SubSeq(rest, k + 1, Len(rest))))]

\* The rows one transcript contributes: blank lines skipped, lines that do
\* not match dropped.
RECURSIVE ParseLines(_, _)
ParseLines(lines, call_id) ==
    IF lines = <<>> THEN <<>>
    ELSE LET ln == PyStrip(Head(lines))
             here == IF ln # <<>> /\ LineMatches(ln)
                     THEN <<[call_id |-> call_id] @@ LineFields(ln)>>
                     ELSE <<>>
         IN here \o ParseLines(Tail(lines), call_id)

\* Numbering the rows from zero.
CallZeroBased(i) == Str(<<"C", "A", "L", "L", "_">> \o IntToStr(i - 1))

Call(i) == Str(<<"C", "A", "L", "L", "_">> \o IntToStr(i))

\* The loop over enumerate(df.to_dicts(), start=1), from row i on.
\* call_id_col = "" is Python's None (app.py passes `call_id_col or None`).
RECURSIVE ExplodeRows(_, _, _, _)
ExplodeRows(df, raw_col, call_id_col, i) ==
    IF i > Len(df.rows) THEN <<>>
    ELSE LET rec == df.rows[i]
             raw_value == PyStrip(PyStr(rec[raw_col]))
             call_id == IF call_id_col # "" /\ call_id_col \in DOMAIN rec
                        THEN rec[call_id_col] ELSE Call(i)
             here == IF raw_value = <<>> THEN <<>>
                     ELSE ParseLines(SplitLines(raw_value), call_id)
         IN here \o ExplodeRows(df, raw_col, call_id_col, i + 1)

\* The name `st` is not bound in utils_polars.py (its imports are io, re, os
\* and polars), so evaluating st.warning raises NameError.
WarnNoLines(raw_col) == Failed(Raised("NameError", "st", <<>>))

\* Without the check of the column: no row is read, nothing is parsed.
ExplodeUnchecked(df, raw_col, call_id_col) ==
    IF raw_col \notin Range(df.columns) THEN WarnNoLines(raw_col)
    ELSE LET rows == ExplodeRows(df, raw_col, call_id_col, 1)
         IN IF rows = <<>> THEN WarnNoLines(raw_col)
            ELSE Prepared(<<"call_id", "timestamp", "speaker", "text">>, rows)

explode_raw_transcript_column(df, raw_col, call_id_col) ==
    IF raw_col \notin Range(df.columns)
    THEN Failed(Raised("ValueError", raw_col, df.columns))
    ELSE LET rows == ExplodeRows(df, raw_col, call_id_col, 1)
         IN IF rows = <<>> THEN WarnNoLines(raw_col)
            ELSE Prepared(<<"call_id", "timestamp", "speaker", "text">>, rows)

-----------------------------------------------------------------------------
(* Structured mode: ensure_columns, to_seconds and app.py's with_columns   *)

\* int(x) of a float given in tenths: truncation toward zero.
Trunc(tenths) == IF tenths < 0 THEN -((-tenths) \div 10) ELSE tenths \div 10

Returned(n) == [raised |-> FALSE, value |-> n, type |-> "none"]

Raises(type) == [raised |-> TRUE, value |-> 0, type |-> type]

\* The try block of to_seconds: exactly three colon-separated fields, each an
\* int() literal; any exception gives 0.
ClockSeconds(s) ==
    LET f == SplitOn(s, ":")
    IN IF Len(f) = 3 /\ \A i \in 1..3 : IntLiteralOk(f[i])
       THEN PyInt(f[1]) * 3600 + PyInt(f[2]) * 60 + PyInt(f[3])
       ELSE 0

to_seconds(x) ==
    IF x.t = "null" THEN Returned(0)
    ELSE IF x.t = "int" THEN Returned(x.v)
    ELSE IF x.t = "float" THEN Returned(Trunc(x.v))
    ELSE IF x.t = "nan" THEN Raises("ValueError")
    ELSE IF x.t = "inf" THEN Raises("OverflowError")
    ELSE LET s == PyStrip(x.v)
         IN IF s # <<>> /\ \A i \in DOMAIN s : IsUnicodeDigit(s[i])
            THEN IF IntLiteralOk(s) THEN Returned(PyInt(s))
                 ELSE Raises("ValueError")
            ELSE Returned(ClockSeconds(s))

FloatToStr(tenths) ==
    IF tenths < 0
    THEN <<"-">> \o IntToStr((-tenths) \div 10) \o <<".">>
         \o IntToStr((-tenths) % 10)
    ELSE IntToStr(tenths \div 10) \o <<".">> \o IntToStr(tenths % 10)

\* cast(pl.Utf8) of a cell
CastUtf8(x) == IF x.t = "null" THEN Null
               ELSE IF x.t = "float" THEN Str(FloatToStr(x.v))
               ELSE IF x.t = "nan" THEN Str(<<"N", "a", "N">>)
               ELSE IF x.t = "inf" THEN Str(<<"i", "n", "f">>)
               ELSE Str(PyStr(x))

\* The dict literal passed to rename: a repeated key keeps its last value.
RenamePairs(call_id_col, ts_col, speaker_col, text_col) ==
    <<<<call_id_col, "call_id">>, <<ts_col, "timestamp">>,
      <<speaker_col, "speaker">>, <<text_col, "text">>>>

RenameTarget(pairs, c) ==
    IF \E i \in DOMAIN pairs : pairs[i][1] = c
    THEN pairs[CHOOSE i \in DOMAIN pairs :
                   pairs[i][1] = c
                   /\ \A j \in (i + 1)..Len(pairs) : pairs[j][1] # c][2]
    ELSE c

\* ensure_columns.  df.rename fails on a key that is no column of df
\* (polars ColumnNotFoundError, which names such a key), and on a result with
\* two columns of one name; the casts need call_id, speaker and text.  The
\* set of results the call can have.
ensure_columns(df, call_id_col, ts_col, speaker_col, text_col) ==
    LET pairs == RenamePairs(call_id_col, ts_col, speaker_col, text_col)
        keys == {pairs[i][1] : i \in DOMAIN pairs}
        missing == {k \in keys : k \notin Range(df.columns)}
        cols == [i \in DOMAIN df.columns |-> RenameTarget(pairs, df.columns[i])]
        old(n) == df.columns[CHOOSE i \in DOMAIN cols : cols[i] = n]
        cast(n, x) == IF n \in {"call_id", "speaker", "text"}
                      THEN CastUtf8(x) ELSE x
    IN IF missing # {}
       THEN {Failed(Raised("ColumnNotFoundError", k, <<>>)) : k \in missing}
       ELSE IF Cardinality(Range(cols)) # Len(cols)
       THEN {Failed(Raised("DuplicateError", "", <<>>))}
       ELSE IF ~({"call_id", "speaker", "text"} \subseteq Range(cols))
       THEN {Failed(Raised("ColumnNotFoundError", n, <<>>)) :
               n \in {"call_id", "speaker", "text"} \ Range(cols)}
       ELSE {Prepared(cols, [i \in DOMAIN df.rows |->
                               [n \in Range(cols) |->
                                  cast(n, df.rows[i][old(n)])]])}

\* app.py after ensure_columns: timestamp through to_seconds (map_elements
\* leaves a null cell null and lets an exception of the function escape),
\* speaker upper-cased.
NormalizeRow(row) ==
    [n \in DOMAIN row |->
        IF n = "timestamp" /\ row[n].t # "null"
        THEN Int64(to_seconds(row[n]).value)
        ELSE IF n = "speaker" /\ row[n].t = "str" THEN Str(PyUpper(row[n].v))
        ELSE row[n]]

NormalizeStructured(r) ==
    IF ~r.ok THEN r
    ELSE IF "timestamp" \notin Range(r.columns)
    THEN Failed(Raised("ColumnNotFoundError", "timestamp", <<>>))
    ELSE IF \E i \in DOMAIN r.table.rows :
              /\ r.table.rows[i]["timestamp"].t # "null"
              /\ to_seconds(r.table.rows[i]["timestamp"]).raised
    THEN LET i == CHOOSE j \in DOMAIN r.table.rows :
                    /\ r.table.rows[j]["timestamp"].t # "null"
                    /\ to_seconds(r.table.rows[j]["timestamp"]).raised
         IN Failed(Raised(to_seconds(r.table.rows[i]["timestamp"]).type,
                          "to_seconds", <<>>))
    ELSE Prepared(r.columns, [i \in DOMAIN r.table.rows |->
                                NormalizeRow(r.table.rows[i])])

\* The utterance table app.py prepares (lines 85 to 92): the set of results.
PrepareOutcomes(df, cfg) ==
    IF cfg.parse_raw
    THEN {explode_raw_transcript_column(df, cfg.text_col, cfg.call_id_col)}
    ELSE {NormalizeStructured(r) :
            r \in ensure_columns(df, cfg.call_id_col, cfg.ts_col,
                                 cfg.speaker_col, cfg.text_col)}

-----------------------------------------------------------------------------
(* categorize_utterances                                                   *)

\* REGEXP_LIKE(text, re): the pattern is found somewhere in the text.  The
\* patterns of the rule tables are literals with "." (any character), a
\* leading "^" and a trailing "$".
RegexCore(re) ==
    LET a == IF re # <<>> /\ re[1] = "^" THEN Tail(re) ELSE re
    IN IF a # <<>> /\ a[Len(a)] = "$" THEN SubSeq(a, 1, Len(a) - 1) ELSE a

\* The pattern must cover the whole text (a full match for the search).
RegexFullMatch(text, re) ==
    LET core == RegexCore(re)
    IN /\ Len(core) = Len(text)
       /\ \A k \in DOMAIN core : core[k] = "." \/ core[k] = text[k]

RegexSearch(text, re) ==
    LET core == RegexCore(re)
        atStart == re # <<>> /\ re[1] = "^"
        atEnd == re # <<>> /\ re[Len(re)] = "$" /\ Len(re) > (IF atStart THEN 1 ELSE 0)
    IN \E i \in 1..(Len(text) + 1) :
         /\ i + Len(core) - 1 <= Len(text)
         /\ atStart => i = 1
         /\ atEnd => i + Len(core) - 1 = Len(text)
         /\ \A k \in DOMAIN core :
              core[k] = "." \/ core[k] = text[i + k - 1]

\* The WHERE predicate: NULL (no row) on a null text.
REGEXP_LIKE(text, re) == text.t = "str" /\ RegexSearch(text.v, re)

MatchRow(u, r) ==
    [call_id |-> u["call_id"], timestamp |-> u["timestamp"],
     speaker |-> u["speaker"], text |-> u["text"],
     rule_id |-> r["rule_id"], query_name |-> r["query_name"],
     category |-> r["category"], subcategory |-> r["subcategory"],
     match |-> TRUE]

\* FROM utter u, rules r WHERE match: pair k of the cross product, and on.
RECURSIVE CrossJoin(_, _, _)
CrossJoin(us, rs, k) ==
    IF k > Len(us) * Len(rs) THEN <<>>
    ELSE LET u == us[((k - 1) \div Len(rs)) + 1]
             r == rs[((k - 1) % Len(rs)) + 1]
         IN (IF REGEXP_LIKE(u["text"], r["compiled_regex"])
             THEN <<MatchRow(u, r)>> ELSE <<>>)
            \o CrossJoin(us, rs, k + 1)

\* Grouping by call_id and category instead of call_id alone.
SummaryPerCategory(ms) ==
    {[call_id |-> g[1],
      categories |-> {g[2]},
      subcategories |-> {ms[i].subcategory :
                           i \in {j \in DOMAIN ms : <<ms[j].call_id, ms[j].category>> = g}},
      total_hits |-> Cardinality({j \in DOMAIN ms :
                                    <<ms[j].call_id, ms[j].category>> = g})] :
        g \in {<<ms[i].call_id, ms[i].category>> : i \in DOMAIN ms}}

\* GROUP BY call_id with LIST(DISTINCT ...) and COUNT(*): one row a group.
Summary(ms) ==
    {[call_id |-> c,
      categories |-> {ms[i].category : i \in {j \in DOMAIN ms : ms[j].call_id = c}},
      subcategories |-> {ms[i].subcategory : i \in {j \in DOMAIN ms : ms[j].call_id = c}},
      total_hits |-> Cardinality({j \in DOMAIN ms : ms[j].call_id = c})] :
        c \in {ms[i].call_id : i \in DOMAIN ms}}

\* The query names r.compiled_regex: a rule table without that column fails
\* in the engine's binder.  "PRAGMA threads=ALL" and the registration of the
\* two tables are taken to succeed and to change no result.
categorize_utterances(utter_df, rules) ==
    IF "compiled_regex" \notin rules.columns
    THEN [ok |-> FALSE, matches |-> <<>>, summary |-> {},
          error |-> Raised("BinderException", "compiled_regex", <<>>)]
    ELSE LET ms == CrossJoin(utter_df.rows, rules.rows, 1)
         IN [ok |-> TRUE, matches |-> ms, summary |-> Summary(ms),
             error |-> NoError]

-----------------------------------------------------------------------------
(* speaker_term_buckets                                                    *)

MinTermLen == 4

TermCap == 50

\* re.findall(r"[A-Za-z]{4,}", s): the maximal runs of letters, in order,
\* that are at least MinTermLen long.
RunStarts(s) ==
    {i \in DOMAIN s : IsLetter(s[i]) /\ (i = 1 \/ ~IsLetter(s[i - 1]))}

RunEnd(s, i) ==
    CHOOSE j \in i..Len(s) :
      /\ \A k \in i..j : IsLetter(s[k])
      /\ j = Len(s) \/ ~IsLetter(s[j + 1])

LetterRuns(s) ==
    LET q == {i \in RunStarts(s) : RunEnd(s, i) - i + 1 >= MinTermLen}
        nth(n) == CHOOSE i \in q : Cardinality({j \in q : j < i}) = n - 1
    IN [n \in 1..Cardinality(q) |-> SubSeq(s, nth(n), RunEnd(s, nth(n)))]

Cap(seq, n) == SubSeq(seq, 1, IF Len(seq) < n THEN Len(seq) ELSE n)

extract_terms(text) ==
    LET ws == LetterRuns(text)
    IN Cap([i \in DOMAIN ws |-> PyLower(ws[i])], TermCap)

\* with_columns(map_elements(extract_terms)).explode("terms"): a null text
\* has null terms, and explode gives a null or empty list one row with a
\* null term.
ExplodeTerms(u) ==
    LET ts == IF u["text"].t = "str" THEN extract_terms(u["text"].v) ELSE <<>>
    IN IF ts = <<>>
       THEN <<[call_id |-> u["call_id"], speaker |-> u["speaker"],
               terms |-> Null]>>
       ELSE [i \in DOMAIN ts |->
               [call_id |-> u["call_id"], speaker |-> u["speaker"],
                terms |-> Str(ts[i])]]

RECURSIVE Exploded(_)
Exploded(us) == IF us = <<>> THEN <<>>
                ELSE ExplodeTerms(Head(us)) \o Exploded(Tail(us))

\* group_by(["call_id", "speaker", "terms"]).len()
TermGroups(ex) ==
    {[call_id |-> g.call_id, speaker |-> g.speaker, terms |-> g.terms,
      len |-> Cardinality({i \in DOMAIN ex : ex[i] = g})] : g \in Range(ex)}

RECURSIVE StrLess(_, _)
StrLess(a, b) ==
    IF b = <<>> THEN FALSE
    ELSE IF a = <<>> THEN TRUE
    ELSE IF Head(a) # Head(b) THEN CharCode(Head(a)) < CharCode(Head(b))
    ELSE StrLess(Tail(a), Tail(b))

\* Sort order of a column: nulls first, strings by code point.
CellLess(x, y) ==
    IF x.t = "null" THEN y.t # "null"
    ELSE IF y.t = "null" THEN FALSE
    ELSE StrLess(PyStr(x), PyStr(y))

\* sort(["call_id", "speaker", "len"], descending=[False, False, True])
BucketBefore(a, b) ==
    \/ CellLess(a.call_id, b.call_id)
    \/ a.call_id = b.call_id /\ CellLess(a.speaker, b.speaker)
    \/ a.call_id = b.call_id /\ a.speaker = b.speaker /\ a.len > b.len

\* The orders the sort can leave the groups in: rows equal on the three keys
\* come in any order.
RECURSIVE SortedOrders(_)
SortedOrders(S) ==
    IF S = {} THEN {<<>>}
    ELSE UNION {{<<m>> \o rest : rest \in SortedOrders(S \ {m})} :
                 m \in {x \in S : \A y \in S : ~BucketBefore(y, x)}}

speaker_term_buckets(utter_df) ==
    SortedOrders(TermGroups(Exploded(utter_df.rows)))

-----------------------------------------------------------------------------
(* The script app.py, one action a stage                                  *)

Init ==
    /\ pc = "start"
    /\ rule_file = <<Absent, Absent>>
    /\ rules_df = Absent
    /\ raw_df = [columns |-> <<>>, rows |-> <<>>]
    /\ config = [call_id_col |-> "call_id", ts_col |-> "timestamp",
                 speaker_col |-> "speaker", text_col |-> "text",
                 parse_raw |-> FALSE]
    /\ utter = NoTable
    /\ matches = NoTable
    /\ journey = {}
    /\ buckets = NoTable
    /\ error = NoError
    /\ warnings = <<>>

\* app.py lines 48 to 64, with the rule files found on disk.
LoadRules(files) ==
    /\ pc = "start"
    /\ \E fs \in files :
         LET r == LoadRulesGuarded(fs)
         IN /\ rule_file' = fs
            /\ rules_df' = r.df
            /\ error' = r.error
            /\ pc' = r.pc
    /\ UNCHANGED <<raw_df, config, utter, matches, journey, buckets, warnings>>

\* app.py lines 22 to 46 and 80 to 83: a file is uploaded and read, with the
\* sidebar's column mapping and mode.
Upload(uploads) ==
    /\ pc = "rules_loaded"
    /\ \E up \in uploads :
         /\ raw_df' = up.df
         /\ config' = up.config
    /\ pc' = "uploaded"
    /\ UNCHANGED <<rule_file, rules_df, utter, matches, journey, buckets,
                   error, warnings>>

\* app.py lines 85 to 94.
PrepareUtterances ==
    /\ pc = "uploaded"
    /\ \E r \in PrepareOutcomes(raw_df, config) :
         /\ utter' = r.table
         /\ error' = r.error
         /\ warnings' = warnings \o r.warnings
         /\ pc' = IF r.ok THEN "prepared" ELSE "failed"
    /\ UNCHANGED <<rule_file, rules_df, raw_df, config, matches, journey,
                   buckets>>

\* app.py lines 96 and 97.
Categorize ==
    /\ pc = "prepared"
    /\ LET r == categorize_utterances(utter, rules_df)
       IN /\ matches' = (IF r.ok THEN Table(r.matches) ELSE NoTable)
          /\ journey' = r.summary
          /\ error' = r.error
          /\ pc' = IF r.ok THEN "matched" ELSE "failed"
    /\ UNCHANGED <<rule_file, rules_df, raw_df, config, utter, buckets,
                   warnings>>

\* app.py lines 128 to 131.
TermBuckets ==
    /\ pc = "matched"
    /\ \E b \in speaker_term_buckets(utter) : buckets' = Table(b)
    /\ pc' = "done"
    /\ UNCHANGED <<rule_file, rules_df, raw_df, config, utter, matches,
                   journey, error, warnings>>

-----------------------------------------------------------------------------
(* Inputs: the rule files on disk and the uploads of the runs checked      *)

MaxRules == 2

MaxRows == 2

MaxLines == 2

T_Billing == <<"m", "y", " ", "b", "i", "l", "l", "i", "n", "g">>

T_Need ==
    <<"I", " ", "n", "e", "e", "d", " ", "h", "e", "l", "p", " ", "w", "i",
      "t", "h", " ", "b", "i", "l", "l", "i", "n", "g">>

T_Hello == <<"H", "e", "l", "l", "o", " ", "t", "h", "e", "r", "e">>

T_Both ==
    <<"H", "i", ",", " ", "r", "e", "f", "u", "n", "d", " ", "b", "i", "l",
      "l", "i", "n", "g">>

T_Thanks == <<"o", "k">>

T_Terms ==
    <<"B", "i", "l", "l", "i", "n", "g", " ", "b", "i", "l", "l", "i", "n",
      "g", " ", "b", "i", "l", "l", " ", "n", "o", "w">>

W_Word == <<"w", "o", "r", "d", " ">>

RE_Billing == <<"b", "i", "l", "l", "i", "n", "g">>

RE_Refund == <<"r", "e", "f", "u", "n", "d">>

RE_Hi == <<"^", "H", "i">>

L_Spec1 ==
    <<"[", "0", "0", ":", "0", "0", ":", "0", "5", " ", "A", "G", "E", "N",
      "T", "]", ":", " ", "H", "e", "l", "l", "o", " ", "t", "h", "e", "r",
      "e">>

L_Spec2 ==
    <<"[", "0", "0", ":", "0", "0", ":", "1", "0", " ", "C", "U", "S", "T",
      "O", "M", "E", "R", "]", ":", " ", "I", " ", "n", "e", "e", "d", " ",
      "h", "e", "l", "p", " ", "w", "i", "t", "h", " ", "b", "i", "l", "l",
      "i", "n", "g">>

L_Code1 ==
    <<"[", "0", "0", ":", "0", "0", ":", "0", "5", "]", " ", "A", "G", "E",
      "N", "T", ":", " ", "H", "e", "l", "l", "o", " ", "t", "h", "e", "r",
      "e">>

L_Code2 ==
    <<"[", "0", "1", ":", "0", "2", ":", "0", "3", "]", " ", "c", "u", "s",
      "t", "o", "m", "e", "r", " ", ":", " ", "b", "i", "l", "l", "i", "n",
      "g">>

L_Plain == <<"p", "l", "a", "i", "n", " ", "t", "e", "x", "t">>

L_Blank == <<" ", " ">>

TS_Clock == <<"0", "1", ":", "0", "2", ":", "0", "3">>

TS_Digits == <<"9", "0">>

TS_Padded == <<" ", "7", " ">>

TS_Signed == <<"-", "5">>

TS_Word == <<"a", "b", "c">>

TS_Two == <<"1", ":", "2">>

TS_Letters == <<"a", ":", "b", ":", "c">>

TS_Under == <<"1", "_", "0", ":", "0", ":", "0">>

TS_Empty == <<>>

\* U+00B2 alone: str.isdigit is true of it and int() rejects it.
TS_Superscript == <<"SUP2">>

SeqsUpTo(S, n) == UNION {[1..k -> S] : k \in 0..n}

RECURSIVE Repeat(_, _)
Repeat(s, n) == IF n = 0 THEN <<>> ELSE s \o Repeat(s, n - 1)

RECURSIVE JoinLines(_)
JoinLines(ls) == IF ls = <<>> THEN <<>>
                 ELSE IF Len(ls) = 1 THEN ls[1]
                 ELSE ls[1] \o <<"\n">> \o JoinLines(Tail(ls))

RuleColumns ==
    {"rule_id", "query_name", "industry", "category", "subcategory",
     "compiled_regex"}

Rule(id, cat, sub, re) ==
    [rule_id |-> id, query_name |-> id, industry |-> "telecom",
     category |-> cat, subcategory |-> sub, compiled_regex |-> re]

R1 == Rule("R1", "Billing", "Invoice", RE_Billing)

R2 == Rule("R2", "Billing", "Refund", RE_Refund)

R3 == Rule("R3", "Greeting", "Opening", RE_Hi)

RulePool == {R1, R2, R3}

OneRuleFile == <<Absent, RuleFile(RuleColumns, <<R1>>)>>

\* Rule tables of up to MaxRules rules, as the CSV file.
RuleTables ==
    {<<Absent, RuleFile(RuleColumns, rs)>> : rs \in SeqsUpTo(RulePool, MaxRules)}

\* No file, a file lacking one column, and the Parquet file before the CSV.
RuleFilesOnDisk ==
    {<<Absent, Absent>>, OneRuleFile,
     <<RuleFile(RuleColumns, <<R1, R3>>), RuleFile(RuleColumns \ {"category"}, <<R2>>)>>}
    \cup {<<RuleFile(RuleColumns \ {c}, <<R1, R2>>), Absent>> : c \in RuleColumns}

Canonical == <<"call_id", "timestamp", "speaker", "text">>

DefaultConfig ==
    [call_id_col |-> "call_id", ts_col |-> "timestamp",
     speaker_col |-> "speaker", text_col |-> "text", parse_raw |-> FALSE]

Frame(cols, rs) == [columns |-> cols, rows |-> rs]

CallA == Str(<<"A">>)

CallB == Str(<<"B">>)

Agent == Str(<<"a", "g", "e", "n", "t">>)

Customer == Str(<<"C", "u", "s", "t">>)

\* Structured uploads for matching: up to MaxRows utterances of two calls.
MatchUploads ==
    LET pool == {[call_id |-> c, timestamp |-> Int64(5), speaker |-> Agent,
                  text |-> Str(t)] :
                   c \in {CallA, CallB}, t \in {T_Billing, T_Both, T_Thanks}}
    IN {[df |-> Frame(Canonical, rs), config |-> DefaultConfig] :
          rs \in SeqsUpTo(pool, MaxRows)}

LinePool == {L_Spec1, L_Spec2, L_Code1, L_Code2, L_Plain, L_Blank}

RawConfig(call_id_col) ==
    [call_id_col |-> call_id_col, ts_col |-> "timestamp",
     speaker_col |-> "speaker", text_col |-> "transcript", parse_raw |-> TRUE]

\* Raw uploads: one row holding a transcript of up to MaxLines lines; up to
\* MaxRows rows of whole transcripts, null and blank cells among them, without
\* and with a call_id column.
RawUploads ==
    LET one == {Frame(<<"transcript">>, <<[transcript |-> Str(JoinLines(ls))]>>) :
                  ls \in SeqsUpTo(LinePool, MaxLines)}
        cells == {Str(L_Code1), Str(JoinLines(<<L_Code1, L_Code2>>)),
                  Str(JoinLines(<<L_Spec1, L_Spec2>>)), Str(L_Plain),
                  Str(L_Blank), Null}
        bare == {Frame(<<"transcript">>, rs) :
                   rs \in SeqsUpTo({[transcript |-> t] : t \in cells}, MaxRows)}
        keyed == {Frame(<<"call_id", "transcript">>, rs) :
                    rs \in SeqsUpTo({[call_id |-> c, transcript |-> t] :
                                       c \in {CallA, CallB},
                                       t \in {Str(L_Code1), Str(L_Plain),
                                              Str(JoinLines(<<L_Code1, L_Code2>>))}},
                                    MaxRows)}
    IN {[df |-> d, config |-> RawConfig(c)] :
          d \in one \cup bare \cup keyed, c \in {"call_id", ""}}

\* Structured uploads for timestamps: a timestamp column of integers, of
\* floats or of strings, up to MaxRows rows.
TimestampCells ==
    {{Int64(0), Int64(90), Int64(-5), Null},
     {Float(15), Float(-15), Float(900), NaN, Inf, Null},
     {Str(TS_Clock), Str(TS_Digits), Str(TS_Padded), Str(TS_Signed),
      Str(TS_Word), Str(TS_Two), Str(TS_Letters), Str(TS_Under),
      Str(TS_Empty), Str(TS_Superscript), Null}}

TimestampUploads ==
    {[df |-> Frame(Canonical, rs), config |-> DefaultConfig] :
       rs \in UNION {SeqsUpTo({[call_id |-> CallA, timestamp |-> x,
                                speaker |-> Agent, text |-> Str(T_Billing)] :
                                 x \in column}, MaxRows) :
                       column \in TimestampCells}}

\* Structured uploads for term buckets: texts with repeated terms, with two
\* terms, with no term, and with more than TermCap terms.
TermUploads ==
    LET texts == {Str(T_Terms), Str(T_Hello), Str(T_Thanks),
                  Str(Repeat(W_Word, TermCap + 1))}
        keys == {<<CallA, Agent>>, <<CallB, Agent>>, <<CallA, Customer>>}
        pool == {[call_id |-> k[1], timestamp |-> Int64(5), speaker |-> k[2],
                  text |-> t] : k \in keys, t \in texts}
    IN {[df |-> Frame(Canonical, rs), config |-> DefaultConfig] :
          rs \in SeqsUpTo(pool, MaxRows)}

\* Uploads for the column mapping: tables with canonical, foreign, missing
\* and raw columns, under every mapping of the sidebar and both modes.
CellFor(c) ==
    CASE c \in {"call_id", "id"} -> CallA
      [] c \in {"timestamp", "ts"} -> Str(TS_Clock)
      [] c \in {"speaker", "who"} -> Agent
      [] c \in {"text", "said"} -> Str(T_Billing)
      [] OTHER -> Str(L_Code1)

MappingUploads ==
    LET layouts == {Canonical, <<"id", "ts", "who", "said">>,
                    <<"call_id", "timestamp", "speaker">>,
                    <<"transcript">>, <<"call_id", "transcript">>,
                    <<"call_id", "timestamp", "speaker", "text", "said">>}
        configs == {[call_id_col |-> a, ts_col |-> b, speaker_col |-> c,
                     text_col |-> d, parse_raw |-> e] :
                      a \in {"call_id", "id", ""}, b \in {"timestamp", "ts"},
                      c \in {"speaker", "who"},
                      d \in {"text", "said", "transcript"}, e \in BOOLEAN}
    IN {[df |-> Frame(cols, [i \in 1..k |-> [c \in Range(cols) |-> CellFor(c)]]),
         config |-> cfg] :
          cols \in layouts, k \in 0..MaxRows, cfg \in configs}

-----------------------------------------------------------------------------
(* Specifications                                                          *)

NextMatch ==
    \/ LoadRules(RuleTables)
    \/ Upload(MatchUploads)
    \/ PrepareUtterances
    \/ Categorize
    \/ TermBuckets

\* Structured utterances against rule tables of every shape.
SpecMatch == Init /\ [][NextMatch]_vars

NextRaw ==
    \/ LoadRules({OneRuleFile})
    \/ Upload(RawUploads)
    \/ PrepareUtterances
    \/ Categorize
    \/ TermBuckets

\* Raw transcripts against one rule.
SpecRaw == Init /\ [][NextRaw]_vars

NextSeconds ==
    \/ LoadRules({OneRuleFile})
    \/ Upload(TimestampUploads)
    \/ PrepareUtterances
    \/ Categorize
    \/ TermBuckets

\* Structured utterances with timestamps of every kind.
SpecSeconds == Init /\ [][NextSeconds]_vars

NextTerms ==
    \/ LoadRules({OneRuleFile})
    \/ Upload(TermUploads)
    \/ PrepareUtterances
    \/ Categorize
    \/ TermBuckets

\* Structured utterances for the speaker term buckets.
SpecTerms == Init /\ [][NextTerms]_vars

Next ==
    \/ LoadRules(RuleFilesOnDisk)
    \/ Upload(MappingUploads)
    \/ PrepareUtterances
    \/ Categorize
    \/ TermBuckets

\* The rule files on disk and the sidebar's column mapping.
Spec == Init /\ [][Next]_vars

-----------------------------------------------------------------------------
(* Claims                                                                  *)

Count(seq, x) == Cardinality({i \in DOMAIN seq : seq[i] = x})

\* The pattern is found in the text: some window of the text has the
\* pattern's length and agrees with it, at the start or end where anchored.
PatternFound(text, re) ==
    /\ text.t = "str"
    /\ LET lit == SelectSeq(re, LAMBDA c : c \notin {"^", "$"})
       IN \E a \in 1..(Len(text.v) - Len(lit) + 1) :
            LET w == SubSeq(text.v, a, a + Len(lit) - 1)
            IN /\ \A k \in DOMAIN lit : lit[k] \in {".", w[k]}
               /\ (re # <<>> /\ re[1] = "^") => a = 1
               /\ (re # <<>> /\ re[Len(re)] = "$") => a + Len(lit) - 1 = Len(text.v)

Past(stage) ==
    CASE stage = "uploaded" -> pc \in {"uploaded", "prepared", "matched", "done", "failed"}
      [] stage = "prepared" -> pc \in {"prepared", "matched", "done", "failed"}

RawRun == Past("prepared") /\ config.parse_raw
          /\ config.text_col \in Range(raw_df.columns)

\* A line of the shape [HH:MM:SS SPEAKER]: message text
DocumentedShape(ln) ==
    /\ Len(ln) >= 13
    /\ ln[1] = "[" /\ ln[4] = ":" /\ ln[7] = ":" /\ ln[10] = " "
    /\ \A i \in {2, 3, 5, 6, 8, 9} : IsAsciiDigit(ln[i])
    /\ \E k \in 12..(Len(ln) - 1) :
         /\ ln[k] = "]" /\ ln[k + 1] = ":"
         /\ \A j \in 11..(k - 1) : IsLetter(ln[j]) \/ ln[j] = " "

DocumentedFields(ln) ==
    LET k == CHOOSE i \in 12..(Len(ln) - 1) :
                 ln[i] = "]" /\ \A j \in 11..(i - 1) : ln[j] # "]"
    IN [timestamp |-> Int64(DigitsToInt(SubSeq(ln, 2, 3)) * 3600
                            + DigitsToInt(SubSeq(ln, 5, 6)) * 60
                            + DigitsToInt(SubSeq(ln, 8, 9))),
        speaker |-> Str(PyUpper(PyStrip(SubSeq(ln, 11, k - 1)))),
        text |-> Str(PyStrip(SubSeq(ln, k + 2, Len(ln))))]

RECURSIVE DocumentedLines(_)
DocumentedLines(lines) ==
    IF lines = <<>> THEN <<>>
    ELSE LET ln == PyStrip(Head(lines))
         IN (IF DocumentedShape(ln) THEN <<DocumentedFields(ln)>> ELSE <<>>)
            \o DocumentedLines(Tail(lines))

RECURSIVE DocumentedRows(_, _)
DocumentedRows(df, i) ==
    IF i > Len(df.rows) THEN <<>>
    ELSE DocumentedLines(SplitLines(PyStr(df.rows[i][config.text_col])))
         \o DocumentedRows(df, i + 1)

WithoutCallId(rows) ==
    [i \in DOMAIN rows |-> [timestamp |-> rows[i].timestamp,
                            speaker |-> rows[i].speaker,
                            text |-> rows[i].text]]

\* C3: in raw mode the utterances are, in line order, exactly the lines of
\* the shape [HH:MM:SS SPEAKER]: message text, with timestamp in seconds,
\* speaker trimmed and upper-cased, text trimmed; no other line gives a row.
C3_DocumentedLinesAreTheUtterances ==
    RawRun => WithoutCallId(utter.rows) = DocumentedRows(raw_df, 1)

\* C3, the scenario: the two-line transcript gives (5, AGENT, Hello there)
\* and (10, CUSTOMER, I need help with billing).
C3_Scenario ==
    (RawRun /\ raw_df.rows = <<[transcript |-> Str(JoinLines(<<L_Spec1, L_Spec2>>))]>>)
      => WithoutCallId(utter.rows)
           = <<[timestamp |-> Int64(5),
                speaker |-> Str(<<"A", "G", "E", "N", "T">>),
                text |-> Str(T_Hello)],
               [timestamp |-> Int64(10),
                speaker |-> Str(<<"C", "U", "S", "T", "O", "M", "E", "R">>),
                text |-> Str(T_Need)]>>

\* C4: when raw parsing yields no utterance the run does not fail: the
\* utterance table is made with zero rows, a warning is surfaced, and matching
\* gives an empty Match table and an empty summary.
C4_EmptyParseContinues ==
    (RawRun /\ ExplodeRows(raw_df, config.text_col, config.call_id_col, 1) = <<>>)
      => /\ pc # "failed"
         /\ utter = Table(<<>>)
         /\ warnings # <<>>
         /\ matches.made => matches.rows = <<>> /\ journey = {}

\* The call_id of input row i: the row's call_id cell when the column is
\* named and present, else CALL_ and the row's 1-based position.
ExpectedCallId(i) ==
    IF config.call_id_col # "" /\ config.call_id_col \in Range(raw_df.columns)
    THEN raw_df.rows[i][config.call_id_col]
    ELSE Str(<<"C", "A", "L", "L", "_", Digits[i + 1]>>)

\* The number of utterances each input row gives, blank and null rows too.
PerRow(i) ==
    Len(ParseLines(SplitLines(PyStrip(PyStr(raw_df.rows[i][config.text_col]))),
                   Null))

RECURSIVE Before(_)
Before(i) == IF i = 1 THEN 0 ELSE Before(i - 1) + PerRow(i - 1)

\* C8: every utterance parsed from input row i carries that row's call_id
\* cell when a call_id column is named and present, and CALL_<i> otherwise,
\* i counting every input row; without the column, utterances of different
\* rows never share a call_id.
C8_CallIdOfRow ==
    (utter.made /\ config.parse_raw) =>
      /\ Len(utter.rows) = Before(Len(raw_df.rows) + 1)
      /\ \A i \in DOMAIN raw_df.rows :
           \A k \in (Before(i) + 1)..(Before(i) + PerRow(i)) :
             utter.rows[k].call_id = ExpectedCallId(i)
      /\ (config.call_id_col = ""
          \/ config.call_id_col \notin Range(raw_df.columns)) =>
           \A i, j \in DOMAIN raw_df.rows :
             \A k \in (Before(i) + 1)..(Before(i) + PerRow(i)) :
               \A l \in (Before(j) + 1)..(Before(j) + PerRow(j)) :
                 i # j => utter.rows[k].call_id # utter.rows[l].call_id

\* The second input row gives utterances named CALL_2 after a first row that
\* gave none.
C8_Witness ==
    /\ utter.made /\ config.parse_raw
    /\ Len(raw_df.rows) >= 2
    /\ PerRow(1) = 0 /\ PerRow(2) >= 1
    /\ utter.rows[1].call_id = Str(<<"C", "A", "L", "L", "_", "2">>)

\* The utterances of a keyed upload carry the cells of its call_id column.
C8_WitnessKeyed ==
    /\ utter.made /\ config.parse_raw
    /\ config.call_id_col \in Range(raw_df.columns)
    /\ \E k \in DOMAIN utter.rows : utter.rows[k].call_id = CallB

TwoDigits(n) == IF n < 10 THEN <<"0">> \o IntToStr(n) ELSE IntToStr(n)

\* An utterance written back as [HH:MM:SS SPEAKER]: text
WrittenBack(u) ==
    <<"[">> \o TwoDigits(u.timestamp.v \div 3600) \o <<":">>
    \o TwoDigits((u.timestamp.v % 3600) \div 60) \o <<":">>
    \o TwoDigits(u.timestamp.v % 60) \o <<" ">> \o u.speaker.v
    \o <<"]", ":", " ">> \o u.text.v

\* C9: writing the utterances of a raw run back as lines
\* [HH:MM:SS SPEAKER]: text and parsing them again with the same call_id
\* gives the same set of utterances.
C9_ReparseGivesTheSameUtterances ==
    (utter.made /\ config.parse_raw) =>
      LET again == explode_raw_transcript_column(
                     Frame(<<"call_id", "transcript">>,
                           [i \in DOMAIN utter.rows |->
                              [call_id |-> utter.rows[i].call_id,
                               transcript |-> Str(WrittenBack(utter.rows[i]))]]),
                     "transcript", "call_id")
      IN again.ok /\ Range(again.table.rows) = Range(utter.rows)

StructuredRun == Past("uploaded") /\ ~config.parse_raw

AllAsciiDigits(s) == s # <<>> /\ \A i \in DOMAIN s : IsAsciiDigit(s[i])

\* C5: to_seconds never raises; it gives 0 for null, the integer for a
\* numeric count of seconds or a pure-digit string, 3600*HH + 60*MM + SS for
\* HH:MM:SS, and 0 for a string that is neither; so no structured run fails
\* in it.
C5_ToSecondsIsTotal ==
    StructuredRun =>
      /\ pc = "failed" => error.name # "to_seconds"
      /\ \A i \in DOMAIN raw_df.rows :
           config.ts_col \in DOMAIN raw_df.rows[i] =>
             LET x == raw_df.rows[i][config.ts_col]
                 r == to_seconds(x)
                 f == SplitOn(PyStrip(PyStr(x)), ":")
             IN /\ ~r.raised
                /\ x.t = "null" => r.value = 0
                /\ x.t = "int" => r.value = x.v
                /\ x.t = "float" => r.value = Trunc(x.v)
                /\ (x.t = "str" /\ Len(f) = 1 /\ AllAsciiDigits(f[1]))
                     => r.value = DigitsToInt(f[1])
                /\ (x.t = "str" /\ Len(f) = 3 /\ \A k \in 1..3 : AllAsciiDigits(f[k]))
                     => r.value = DigitsToInt(f[1]) * 3600
                                  + DigitsToInt(f[2]) * 60 + DigitsToInt(f[3])
                /\ (x.t = "str" /\ Len(f) # 3 /\ ~(Len(f) = 1 /\ AllAsciiDigits(f[1]))
                    /\ \A k \in DOMAIN PyStrip(x.v) : ~IsUnicodeDigit(PyStrip(x.v)[k]))
                     => r.value = 0

LoadedRuleColumns == load_rules(rule_file).df.columns

\* C6: with no rule file, or a loaded rule table lacking one of rule_id,
\* query_name, industry, category, subcategory, compiled_regex, the run stops
\* at rule loading: no upload is read, no utterance prepared, no match made.
C6_RuleErrorsStopAtLoading ==
    (pc # "start" /\ (~load_rules(rule_file).ok
                      \/ ~(RuleColumns \subseteq LoadedRuleColumns)))
      => /\ pc = "stopped"
         /\ error.type # "none"
         /\ raw_df.columns = <<>>
         /\ ~utter.made /\ ~matches.made

MappedColumns ==
    {config.call_id_col, config.ts_col, config.speaker_col, config.text_col}

NothingProduced ==
    /\ pc = "failed"
    /\ utter = NoTable /\ matches = NoTable /\ journey = {} /\ buckets = NoTable

C7_WitnessRaw ==
    /\ pc = "failed" /\ config.parse_raw
    /\ Len(raw_df.rows) > 0
    /\ error = Raised("ValueError", "transcript", Canonical)

TermsOfRow(i) ==
    IF utter.rows[i]["text"].t = "str"
    THEN extract_terms(utter.rows[i]["text"].v) ELSE <<>>

Occurrences(call_id, speaker, term) ==
    Cardinality({p \in (DOMAIN utter.rows) \X (1..TermCap) :
                   /\ utter.rows[p[1]]["call_id"] = call_id
                   /\ utter.rows[p[1]]["speaker"] = speaker
                   /\ p[2] \in DOMAIN TermsOfRow(p[1])
                   /\ TermsOfRow(p[1])[p[2]] = term})

\* C10: the buckets hold one row for each (call_id, speaker, term) with term
\* among the first 50 lower-cased runs of 4 or more letters of an utterance
\* of that call and speaker, counting those occurrences; an utterance
\* without such a word gives no row; rows are sorted by call_id, speaker,
\* count descending.
C10_BucketsCountExtractedTerms ==
    buckets.made =>
      LET bs == buckets.rows
      IN /\ \A k \in DOMAIN bs :
              /\ bs[k].terms.t = "str"
              /\ bs[k].len >= 1
              /\ bs[k].len = Occurrences(bs[k].call_id, bs[k].speaker, bs[k].terms.v)
         /\ \A i \in DOMAIN utter.rows :
              \A n \in DOMAIN TermsOfRow(i) :
                Cardinality({k \in DOMAIN bs :
                               /\ bs[k].call_id = utter.rows[i]["call_id"]
                               /\ bs[k].speaker = utter.rows[i]["speaker"]
                               /\ bs[k].terms = Str(TermsOfRow(i)[n])}) = 1
         /\ \A k, l \in DOMAIN bs : k < l => ~BucketBefore(bs[l], bs[k])

====
